---- MODULE Spec2Model ----
(***************************************************************************)
(* A model of the nodejs-caskdb storage engine (src/src/db.ts, openCask,   *)
(* lines 184-455) and of the directory of segment files it works on.       *)
(*                                                                         *)
(* A segment file is a sequence of chunks.  A chunk is what one write call *)
(* appended: normally one encoded record (encodeKV), described by the      *)
(* fields decodeKV reads back from it and by its length in bytes.  File    *)
(* names NNNNN.dat are modelled by the number NNNNN.                       *)
(***************************************************************************)
EXTENDS Naturals, Sequences, FiniteSets

\* ------------------------------------------------------------------ bounds

\* Number of engine operations (set, delete, merge, close, openCask) in a run.
MaxOps == 5

\* ------------------------------------------------------- program constants

HEADER_SIZE == 16

\* The maxLogSize option the tests open the engine with.
maxLogSize == 1024

\* ------------------------------------------------------------------ inputs

Keys == {"a", "b"}

\* "v1" stands for a string of 495 bytes and "v2" for one of 600 bytes, so that
\* two records of (a key, v1) fill a segment exactly and any other pair of
\* records does not fit into one segment.
Values == {"v1", "v2"}

\* The tombstone value, the four bytes of U+1F4A9.
Tombstone == "tombstone"

\* What a read that did not deliver a record decodes to: a string that is no
\* value any set() wrote.
Garbled == "garbled"

\* The result of get() for a key that is not in the key directory (null).
NotFound == "null"

\* get() rejects: the segment file of the locator cannot be opened.
Failed == "error"

\* Buffer.byteLength of the strings of the model.
ByteLength(s) ==
  IF s \in Keys THEN 1
  ELSE IF s = "v1" THEN 495
  ELSE IF s = "v2" THEN 600
  ELSE IF s = Tombstone THEN 4
  ELSE 0

\* ------------------------------------------------------------------- codec

\* encodeKV: a buffer of HEADER_SIZE + kSize + vSize bytes holding the header
\* (timestamp, kSize, vSize), the key and the value.
encodeKV(timestamp, key, value) ==
  [key |-> key, value |-> value, timestamp |-> timestamp,
   size |-> HEADER_SIZE + ByteLength(key) + ByteLength(value)]

\* The length the header of a chunk announces for its record.
EntrySize(c) == HEADER_SIZE + ByteLength(c.key) + ByteLength(c.value)

\* ------------------------------------------------------------------- files

NoFiles == [i \in {} |-> <<>>]

RECURSIVE FileSize(_)
FileSize(f) == IF f = <<>> THEN 0 ELSE Head(f).size + FileSize(Tail(f))

\* The byte offset at which chunk i of file f starts.
OffsetOf(f, i) == FileSize(SubSeq(f, 1, i - 1))

Min(x, y) == IF x <= y THEN x ELSE y

\* fs.open(path, "a+"): creates the file when it does not exist and leaves an
\* existing file as it is.
OpenAppend(d, id) ==
  [i \in DOMAIN d \cup {id} |-> IF i \in DOMAIN d THEN d[i] ELSE <<>>]

\* fs.rm(path) of an existing file.
Unlink(d, id) == [i \in DOMAIN d \ {id} |-> d[i]]

\* handle.write on a handle opened with "a+": the bytes go to the end of the
\* file, whatever position the call names.
AppendChunks(d, id, cs) == [d EXCEPT ![id] = d[id] \o cs]

\* A buffer of n zero bytes, as the chunks a scan reads it as: records with
\* an empty key and an empty value, then fewer than HEADER_SIZE bytes.
RECURSIVE ZeroChunks(_)
ZeroChunks(n) ==
  IF n = 0 THEN <<>>
  ELSE IF n < HEADER_SIZE
       THEN <<[key |-> Garbled, value |-> Garbled, timestamp |-> 0, size |-> n]>>
       ELSE <<encodeKV(0, "", "")>> \o ZeroChunks(n - HEADER_SIZE)

IsZeroBuffer(b) == b.key = "" /\ b.value = "" /\ b.timestamp = 0

\* The chunks a buffer adds to a file when it is written.
AsChunks(b) ==
  IF IsZeroBuffer(b) /\ b.size > HEADER_SIZE THEN ZeroChunks(b.size) ELSE <<b>>

\* handle.read(buffer, 0, size, position) into Buffer.alloc(size): the number
\* of bytes read.
BytesRead(f, position, size) ==
  IF position >= FileSize(f) THEN 0 ELSE Min(size, FileSize(f) - position)

\* handle.read(buffer, 0, size, position) into Buffer.alloc(size): the buffer,
\* described by what decodeKV(buffer, 0) returns for it.  A read past the end
\* of the file leaves the buffer zeroed; a read that starts at a record and
\* covers it decodes to that record; any other read delivers bytes that are
\* not a record.
ReadBuf(f, position, size) ==
  LET at == {i \in 1..Len(f) : OffsetOf(f, i) = position}
  IN  IF position >= FileSize(f)
        THEN [key |-> "", value |-> "", timestamp |-> 0, size |-> size]
      ELSE IF at = {}
        THEN [key |-> Garbled, value |-> Garbled, timestamp |-> 0, size |-> size]
      ELSE LET c == f[CHOOSE i \in at : TRUE]
           IN  IF c.size = size THEN c
               ELSE IF c.key # Garbled /\ EntrySize(c) <= size /\ EntrySize(c) <= c.size
                 THEN [c EXCEPT !.size = size]
               ELSE [key |-> Garbled, value |-> Garbled, timestamp |-> 0, size |-> size]

\* ----------------------------------------------------------- key directory
\* A JavaScript Map: the entries in insertion order.

Has(kd, key) == \E i \in 1..Len(kd) : kd[i].key = key

IndexOf(kd, key) == CHOOSE i \in 1..Len(kd) : kd[i].key = key

\* Map.set: an existing key keeps its place, a new key goes to the end.
Put(kd, key, entry) ==
  LET e == [key |-> key, filename |-> entry.filename, position |-> entry.position,
            size |-> entry.size, timestamp |-> entry.timestamp]
  IN  IF Has(kd, key) THEN [kd EXCEPT ![IndexOf(kd, key)] = e] ELSE Append(kd, e)

\* Map.delete.
Delete(kd, key) ==
  IF Has(kd, key)
    THEN LET i == IndexOf(kd, key) IN SubSeq(kd, 1, i - 1) \o SubSeq(kd, i + 1, Len(kd))
    ELSE kd

\* ------------------------------------------------------------------ replay

\* The test of _load for a tombstone record: the key is deleted when the
\* value is the tombstone and the key directory has the key.
TombstoneHit(kd, key, value) == value = Tombstone /\ Has(kd, key)

\* The loop of _load over the buffer read from a segment, from chunk i at
\* byte offset; bytesRead is the number of bytes the single read delivered.
RECURSIVE LoadFrom(_, _, _, _, _, _)
LoadFrom(kd, filename, f, i, offset, bytesRead) ==
  IF i > Len(f) \/ ~(offset < bytesRead) THEN kd
  ELSE IF bytesRead - offset < HEADER_SIZE THEN kd
  ELSE LET c == f[i]
           entrySize == EntrySize(c)
       IN  \* bytes that are not a header announce a record longer than the buffer
           IF c.key = Garbled THEN kd
           ELSE IF bytesRead - offset < entrySize THEN kd
           ELSE LET \* a record cut short and completed by the bytes written
                    \* after it does not decode to the value that was set
                    value == IF c.size < entrySize THEN Garbled ELSE c.value
                    kd2 == IF TombstoneHit(kd, c.key, value)
                             THEN Delete(kd, c.key)
                             ELSE Put(kd, c.key,
                                      [filename |-> filename, size |-> entrySize,
                                       position |-> offset, timestamp |-> c.timestamp])
                IN  \* the bytes that follow a record inside one chunk are not
                    \* modelled: the scan of the segment ends there
                    IF c.size = entrySize
                      THEN LoadFrom(kd2, filename, f, i + 1, offset + entrySize, bytesRead)
                      ELSE kd2

\* _load(filename): one read of at most maxLogSize bytes, then the loop.
load(kd, filename, f) ==
  LoadFrom(kd, filename, f, 1, 0, Min(FileSize(f), maxLogSize))

\* Directory entries that are not segments.  File names are numbers: the
\* names NNNNN.dat are the numbers below 100000, and two larger numbers stand
\* for the entries README and backup.dat, which sort after every NNNNN.dat.
Readme == 100001

Backup == 100002

ForeignNames == {Readme, Backup}

\* /[0-9a-z]{5}/.test(cask): true of a name that holds five lower-case
\* letters or digits in a row, as NNNNN.dat and backup.dat do.
IsCaskName(name) == name \notin ForeignNames \/ name = Backup

\* The loop of openCask over _casks: _load for the names the pattern accepts.
RECURSIVE LoadAll(_, _, _)
LoadAll(kd, d, cs) ==
  IF cs = <<>> THEN kd
  ELSE IF IsCaskName(Head(cs))
    THEN LoadAll(load(kd, Head(cs), d[Head(cs)]), d, Tail(cs))
    ELSE LoadAll(kd, d, Tail(cs))

\* (await fs.readdir(name)).sort(): the names in lexicographic order, which
\* is the numeric order of the five-digit names.
RECURSIVE SortedSeq(_)
SortedSeq(S) ==
  IF S = {} THEN <<>>
  ELSE LET m == CHOOSE x \in S : \A y \in S : x <= y
       IN  <<m>> \o SortedSeq(S \ {m})

\* The name of the active segment that openCask and a rollover in set choose:
\* one more than the number of names in _casks.
NextCaskName(cs) == Len(cs) + 1

\* openCask on a directory holding the files d: the engine it returns.
OpenState(d) ==
  LET cs == SortedSeq(DOMAIN d)
      cask == NextCaskName(cs)
      d1 == OpenAppend(d, cask)
  IN  [disk |-> d1, casks |-> cs, currentCask |-> cask,
       keyDir |-> LoadAll(<<>>, d1, cs)]

\* -------------------------------------------------------------------- reads

\* get(key): null for a key without an entry, else the value decoded from
\* the bytes read at the entry's locator.
Get(d, kd, key) ==
  IF ~Has(kd, key) THEN NotFound
  ELSE LET e == kd[IndexOf(kd, key)]
       IN  IF e.filename \notin DOMAIN d THEN Failed
           ELSE ReadBuf(d[e.filename], e.position, e.size).value

\* listKeys(): the keys in the order of the Map.
ListKeys(kd) == [i \in 1..Len(kd) |-> kd[i].key]

\* ------------------------------------------------------------------- state

VARIABLES
  disk,            \* the database directory: file name -> chunks of the file
  casks,           \* _casks
  currentCask,     \* currentCask
  cursor,          \* _cursor
  keyDir,          \* _keyDir
  handleOpen,      \* whether the file handle in _handle is open
  handleIsInitial, \* whether _handle is still the handle openCask opened,
                   \* the one the close of the returned object closes
  closed,          \* close() was called and openCask not yet called again
  clock,           \* Date.now()
  hist,            \* the operations so far
  pre,             \* what the reads returned before the last operation
  handle,          \* the file the handle in _handle was opened on
  getHandles       \* the files of the handles get opened and did not close

vars == <<disk, casks, currentCask, cursor, keyDir, handleOpen, handleIsInitial,
          closed, clock, hist, pre, handle, getHandles>>

\* What get, listKeys and readdir return in the current state, with _cursor,
\* _keyDir and the files.
Observed ==
  [get |-> [k \in Keys |-> Get(disk, keyDir, k)],
   keys |-> ListKeys(keyDir),
   files |-> DOMAIN disk,
   cursor |-> cursor,
   keyDir |-> keyDir,
   disk |-> disk]

\* An entry of hist: the call, whether it returned (ok) or rejected, whether
\* set rolled over, and the names the call opened for appending although a
\* file of that name existed.
Op(op, key, value, ok, rolled, reused) ==
  [op |-> op, key |-> key, value |-> value, ok |-> ok, rolled |-> rolled,
   reused |-> reused]

\* openCask on a directory that does not exist or is empty.
Init ==
  LET st == OpenState(NoFiles)
  IN  /\ disk = st.disk
      /\ casks = st.casks
      /\ currentCask = st.currentCask
      /\ cursor = 0
      /\ keyDir = st.keyDir
      /\ handleOpen = TRUE
      /\ handleIsInitial = TRUE
      /\ closed = FALSE
      /\ clock = 1
      /\ hist = <<>>
      /\ pre = [get |-> [k \in Keys |-> NotFound], keys |-> <<>>, files |-> {},
               cursor |-> 0, keyDir |-> <<>>, disk |-> NoFiles]
      /\ handle = currentCask
      /\ getHandles = <<>>

\* ------------------------------------------------------------------- writes

\* The rollover test of set.
NeedsRollover(cur, length) == cur + length > maxLogSize

\* A set that stores the cursor after the append instead of the one before.
SetLocatorAfterAppend(filename, timestamp, bytesWritten, cur) ==
  [filename |-> filename, timestamp |-> timestamp, size |-> bytesWritten,
   position |-> cur + bytesWritten]

\* The entry set stores for the record it wrote.
SetLocator(filename, timestamp, bytesWritten, cur) ==
  [filename |-> filename, timestamp |-> timestamp, size |-> bytesWritten,
   position |-> cur]

\* The body of set(key, value).
SetCall(key, value) ==
  /\ Len(hist) < MaxOps
  /\ LET timestamp == clock
         data == encodeKV(timestamp, key, value)
         roll == NeedsRollover(cursor, data.size)
         casks1 == IF roll THEN Append(casks, currentCask) ELSE casks
         cask1 == IF roll THEN NextCaskName(casks1) ELSE currentCask
         disk1 == IF roll THEN OpenAppend(disk, cask1) ELSE disk
         cursor1 == IF roll THEN 0 ELSE cursor
         open1 == roll \/ handleOpen
     IN  /\ casks' = casks1
         /\ currentCask' = cask1
         /\ handleOpen' = open1
         /\ handleIsInitial' = (handleIsInitial /\ ~roll)
         /\ IF open1
              THEN /\ disk' = AppendChunks(disk1, cask1, <<data>>)
                   /\ keyDir' = Put(keyDir, key,
                                    SetLocator(cask1, timestamp, data.size, cursor1))
                   /\ cursor' = cursor1 + data.size
              ELSE \* _handle.write rejects on the closed handle
                   /\ disk' = disk1
                   /\ keyDir' = keyDir
                   /\ cursor' = cursor1
         /\ hist' = Append(hist, Op("set", key, value, open1, roll,
                                    IF roll THEN {cask1} \cap DOMAIN disk ELSE {}))
  /\ clock' = clock + 1
  /\ pre' = Observed
  /\ UNCHANGED closed
  /\ handle' = currentCask'
  /\ UNCHANGED getHandles

\* set(key, value) on an engine that was not closed
Set(key, value) == ~closed /\ SetCall(key, value)

\* The body of remove(key), exported as delete.
RemoveCall(key) ==
  /\ Len(hist) < MaxOps
  /\ LET timestamp == clock
         data == encodeKV(timestamp, key, Tombstone)
     IN  IF handleOpen
           THEN /\ disk' = AppendChunks(disk, currentCask, <<data>>)
                /\ keyDir' = Delete(keyDir, key)
                /\ cursor' = cursor + data.size
           ELSE \* _handle.write rejects on the closed handle
                UNCHANGED <<disk, keyDir, cursor>>
  /\ hist' = Append(hist, Op("delete", key, Tombstone, handleOpen, FALSE, {}))
  /\ clock' = clock + 1
  /\ pre' = Observed
  /\ UNCHANGED <<casks, currentCask, handleOpen, handleIsInitial, closed>>
  /\ handle' = currentCask'
  /\ UNCHANGED getHandles

\* delete(key) on an engine that was not closed
Remove(key) == ~closed /\ RemoveCall(key)

\* ------------------------------------------------------------------- merge

\* The entry merge stores for a record it copied.
MergeLocator(filename, cur, bytesWritten, timestamp) ==
  [filename |-> filename, position |-> cur, size |-> bytesWritten,
   timestamp |-> timestamp]

\* The loop of merge over _keyDir.entries(), from entry i.  st holds the
\* directory, the key directory, nextFileName, the local cursor, the counter
\* of nextLogFileName, whether no call has rejected, and the names opened
\* for appending although a file of that name existed.
RECURSIVE MergeLoop(_, _)
MergeLoop(st, i) ==
  IF i > Len(st.keyDir) THEN st
  ELSE LET entry == st.keyDir[i]
       IN  IF entry.filename \notin DOMAIN st.disk
             THEN \* fs.open(path, "r") rejects
                  [st EXCEPT !.ok = FALSE]
             ELSE
               LET f == st.disk[entry.filename]
                   buff == ReadBuf(f, entry.position, entry.size)
                   roll == st.cursor + BytesRead(f, entry.position, entry.size) > maxLogSize
                   counter1 == IF roll THEN st.counter + 1 ELSE st.counter
                   name1 == IF roll THEN counter1 ELSE st.nextFileName
                   disk1 == IF roll THEN OpenAppend(st.disk, name1) ELSE st.disk
                   cursor1 == IF roll THEN 0 ELSE st.cursor
               IN  MergeLoop(
                     [disk |-> AppendChunks(disk1, name1, AsChunks(buff)),
                      keyDir |-> Put(st.keyDir, entry.key,
                                     MergeLocator(name1, cursor1, buff.size, entry.timestamp)),
                      nextFileName |-> name1,
                      cursor |-> cursor1 + buff.size,
                      counter |-> counter1,
                      ok |-> TRUE,
                      reused |-> IF roll THEN st.reused \cup ({name1} \cap DOMAIN st.disk)
                                         ELSE st.reused],
                     i + 1)

\* merge with a loop of removals that unlinks nothing.
RemoveOldKeepsAll(d, files) == [disk |-> d, ok |-> TRUE]

\* The loop of merge that removes the old logs; fs.rm rejects for a file
\* that does not exist.
RECURSIVE RemoveOld(_, _)
RemoveOld(d, files) ==
  IF files = <<>> THEN [disk |-> d, ok |-> TRUE]
  ELSE IF Head(files) \notin DOMAIN d THEN [disk |-> d, ok |-> FALSE]
  ELSE RemoveOld(Unlink(d, Head(files)), Tail(files))

\* The body of merge().
MergeCall ==
  /\ Len(hist) < MaxOps
  /\ LET oldFiles == Append(casks, currentCask)
         first == Len(oldFiles) + 1
         st == MergeLoop([disk |-> OpenAppend(disk, first), keyDir |-> keyDir,
                          nextFileName |-> first, cursor |-> 0, counter |-> first,
                          ok |-> TRUE, reused |-> {first} \cap DOMAIN disk], 1)
         rm == IF st.ok THEN RemoveOld(st.disk, oldFiles) ELSE [disk |-> st.disk, ok |-> FALSE]
         ok == st.ok /\ rm.ok
         cask1 == st.counter + 1
     IN  /\ keyDir' = st.keyDir
         /\ IF ok
              THEN /\ disk' = OpenAppend(rm.disk, cask1)
                   /\ currentCask' = cask1
                   /\ handleOpen' = TRUE
                   /\ handleIsInitial' = FALSE
              ELSE \* merge rejects after it closed _handle
                   /\ disk' = rm.disk
                   /\ currentCask' = currentCask
                   /\ handleOpen' = FALSE
                   /\ handleIsInitial' = handleIsInitial
         /\ hist' = Append(hist, Op("merge", "", "", ok, FALSE,
                                    IF ok THEN st.reused \cup ({cask1} \cap DOMAIN rm.disk)
                                          ELSE st.reused))
  /\ pre' = Observed
  /\ UNCHANGED <<casks, cursor, closed, clock>>
  /\ handle' = currentCask'
  /\ UNCHANGED getHandles

\* merge() on an engine that was not closed
Merge == ~closed /\ MergeCall

\* ---------------------------------------------------------- close and open

\* A close that leaves every handle open.
CloseNoHandle ==
  /\ ~closed
  /\ Len(hist) < MaxOps
  /\ closed' = TRUE
  /\ hist' = Append(hist, Op("close", "", "", TRUE, FALSE, {}))
  /\ pre' = Observed
  /\ UNCHANGED <<disk, casks, currentCask, cursor, keyDir, handleOpen,
                 handleIsInitial, clock>>
  /\ handle' = currentCask'
  /\ UNCHANGED getHandles

\* close of the returned object: the close method of the handle openCask
\* opened.  Closing a handle that is closed already does nothing.
Close ==
  /\ ~closed
  /\ Len(hist) < MaxOps
  /\ closed' = TRUE
  /\ handleOpen' = IF handleIsInitial THEN FALSE ELSE handleOpen
  /\ hist' = Append(hist, Op("close", "", "", TRUE, FALSE, {}))
  /\ pre' = Observed
  /\ UNCHANGED <<disk, casks, currentCask, cursor, keyDir, handleIsInitial, clock>>
  /\ handle' = currentCask'
  /\ UNCHANGED getHandles

\* openCask on the directory of a closed engine.
OpenCask ==
  /\ closed
  /\ Len(hist) < MaxOps
  /\ LET st == OpenState(disk)
     IN  /\ disk' = st.disk
         /\ casks' = st.casks
         /\ currentCask' = st.currentCask
         /\ keyDir' = st.keyDir
         /\ hist' = Append(hist, Op("open", "", "", TRUE, FALSE,
                                    {st.currentCask} \cap DOMAIN disk))
  /\ cursor' = 0
  /\ handleOpen' = TRUE
  /\ handleIsInitial' = TRUE
  /\ closed' = FALSE
  /\ pre' = Observed
  /\ UNCHANGED clock
  /\ handle' = currentCask'
  /\ getHandles' = <<>>

\* ----------------------------------------------------------- specification

DoSet == \E k \in Keys, v \in Values : Set(k, v)

DoRemove == \E k \in Keys : Remove(k)

Next == DoSet \/ DoRemove \/ Merge \/ Close \/ OpenCask

Spec == Init /\ [][Next]_vars

\* ------------------------------------------------- reading the history

Last == hist[Len(hist)]

GetNow(k) == Get(disk, keyDir, k)

\* The calls of set and delete for key k that returned.
WritesOf(k) ==
  {i \in 1..Len(hist) : hist[i].op \in {"set", "delete"} /\ hist[i].key = k /\ hist[i].ok}

LastWriteOf(k) == hist[CHOOSE i \in WritesOf(k) : \A j \in WritesOf(k) : j <= i]

LastWriteIsSet(k) == WritesOf(k) # {} /\ LastWriteOf(k).op = "set"

LastWriteIsDelete(k) == WritesOf(k) # {} /\ LastWriteOf(k).op = "delete"

Called(op) == \E i \in 1..Len(hist) : hist[i].op = op

\* The position in hist of the openCask that began the current session.
SessionStart ==
  IF Called("open")
    THEN CHOOSE i \in 1..Len(hist) : hist[i].op = "open" /\ \A j \in i+1..Len(hist) : hist[j].op # "open"
    ELSE 0

\* --------------------------------------------------------------------- C1
\* C1: in a session opened on an empty directory in which merge is never
\* called, get(k) returns the value of the most recent set(k, v) for every
\* key k whose last operation was a set, whatever sets and deletes came
\* before and however often the active segment rolled over.
C1_GetReturnsLastSet ==
  (~Called("merge") /\ ~Called("open")) =>
     \A k \in Keys : LastWriteIsSet(k) => GetNow(k) = LastWriteOf(k).value

\* C1 witness: no merge and no reopen, a set rolled over after a delete, and
\* both keys were last set, their records lying in different segments.
C1_Witness ==
  /\ ~Called("merge") /\ ~Called("open")
  /\ \E i, j \in 1..Len(hist) : i < j /\ hist[i].op = "delete" /\ hist[j].rolled
  /\ \A k \in Keys : LastWriteIsSet(k) /\ GetNow(k) = LastWriteOf(k).value
  /\ Len(keyDir) = 2 /\ keyDir[1].filename # keyDir[2].filename

\* --------------------------------------------------------------------- C2
\* C2: after close and openCask on the same directory, get(k) returns for
\* every key k what it returned just before close (close changes no result
\* of get, so pre holds the results from before the close).
C2_ReopenKeepsGet ==
  (hist # <<>> /\ Last.op = "open") => \A k \in Keys : GetNow(k) = pre.get[k]

\* --------------------------------------------------------------------- C3
\* The calls of delete for key k that returned in the current session.
DeletesInSession(k) ==
  {i \in WritesOf(k) : i > SessionStart /\ hist[i].op = "delete"}

\* C3: after delete(k) has returned, get(k) returns not-found until the next
\* set(k, v), and after that set it returns v (delete and set in the same
\* session).
C3_DeleteThenSet ==
  \A k \in Keys :
    DeletesInSession(k) # {} =>
      /\ LastWriteIsDelete(k) => GetNow(k) = NotFound
      /\ LastWriteIsSet(k) => GetNow(k) = LastWriteOf(k).value

\* --------------------------------------------------------------------- C4
\* The records of key k in the segment files, in the order of replay.
RECURSIVE RecordsOf(_, _, _)
RecordsOf(d, names, k) ==
  IF names = <<>> THEN <<>>
  ELSE SelectSeq(d[Head(names)], LAMBDA c : c.key = k) \o RecordsOf(d, Tail(names), k)

\* The most recent record of key k on disk is a tombstone.
LastRecordIsTombstone(k) ==
  LET rs == RecordsOf(disk, SortedSeq(DOMAIN disk), k)
  IN  rs # <<>> /\ rs[Len(rs)].value = Tombstone

\* C4: replay never inserts an entry for a tombstone record, so after close
\* and openCask get(k) returns not-found for every key k whose most recent
\* record on disk is a tombstone.
C4_TombstoneNeverInserts ==
  (hist # <<>> /\ Last.op = "open") =>
     \A k \in Keys :
        /\ GetNow(k) # Tombstone
        /\ LastRecordIsTombstone(k) => GetNow(k) = NotFound

\* --------------------------------------------------------------------- C5
\* C5: listKeys() and get(k) for every key k return the same immediately
\* after merge() as immediately before it.
C5_MergeKeepsReads ==
  (hist # <<>> /\ Last.op = "merge") =>
     /\ ListKeys(keyDir) = pre.keys
     /\ \A k \in Keys : GetNow(k) = pre.get[k]

\* --------------------------------------------------------------------- C6
\* Entry e of the key directory designates a whole record of key e.key that
\* is present in an existing segment file.
LocatesRecord(e) ==
  /\ e.filename \in DOMAIN disk
  /\ \E i \in 1..Len(disk[e.filename]) :
        LET c == disk[e.filename][i]
        IN  /\ OffsetOf(disk[e.filename], i) = e.position
            /\ c.size = e.size
            /\ c.key = e.key
            /\ EntrySize(c) = c.size

\* C6: a set(k, v) that follows a merge() records a locator at the offset
\* where its record was appended, so get(k) returns v, and the other keys
\* read as they did before the set.
C6_SetAfterMerge ==
  (Len(hist) >= 2 /\ Last.op = "set" /\ Last.ok
     /\ hist[Len(hist) - 1].op = "merge" /\ hist[Len(hist) - 1].ok) =>
       /\ GetNow(Last.key) = Last.value
       /\ LocatesRecord(keyDir[IndexOf(keyDir, Last.key)])
       /\ \A k \in Keys \ {Last.key} : GetNow(k) = pre.get[k]

\* --------------------------------------------------------------------- C7
\* C7: after a set that rolled the active segment over, every key written
\* before the rollover reads as before, and the key just set reads its value.
C7_RolloverKeepsKeys ==
  (hist # <<>> /\ Last.op = "set" /\ Last.ok /\ Last.rolled) =>
     /\ GetNow(Last.key) = Last.value
     /\ \A k \in Keys \ {Last.key} : GetNow(k) = pre.get[k]

\* --------------------------------------------------------------------- C8
\* C8: every entry of the key directory designates a whole record that is
\* present in an existing segment file and whose key is the entry's key.
C8_EntriesLocateRecords ==
  \A i \in 1..Len(keyDir) : LocatesRecord(keyDir[i])

\* --------------------------------------------------------------------- C9
\* C9: between operations the id of the active segment is greater than the
\* id of every other segment file in the directory.
C9_ActiveIsHighest ==
  \A id \in DOMAIN disk \ {currentCask} : id < currentCask

\* -------------------------------------------------------------------- C10
\* C10: every file that openCask, a rollover in set, or merge opens as a
\* write target has a name that did not exist in the directory before.
C10_WriteTargetsAreFresh ==
  \A i \in 1..Len(hist) : hist[i].reused = {}

\* ------------------------------------------------------- C11, C12 and C13

\* C11: no segment file ever holds more than maxLogSize bytes (every record
\* of the model is shorter than maxLogSize): set, delete and merge seal the
\* active segment before an append that would push it past maxLogSize.
C11_NoFileExceedsMaxLogSize ==
  \A id \in DOMAIN disk : FileSize(disk[id]) <= maxLogSize

\* C12: every merge() resolves, none of the files that existed when it
\* began is left in the directory, and every file it opened for writing
\* (its outputs and the new active segment, the names from the first
\* nextLogFileName to currentCask) is in the directory afterwards.
C12_MergeCompletesAndSwapsFiles ==
  (hist # <<>> /\ Last.op = "merge") =>
     /\ Last.ok
     /\ pre.files \cap DOMAIN disk = {}
     /\ (Len(casks) + 2)..currentCask \subseteq DOMAIN disk

\* The bytes of the records the key directory locates.
RECURSIVE LiveBytes(_)
LiveBytes(kd) ==
  IF kd = <<>> THEN 0 ELSE Head(kd).size + LiveBytes(Tail(kd))

\* C13, as stated: a merge() never leaves more segment files in the
\* directory than there were before it.
C13_MergeNeverAddsFiles ==
  (hist # <<>> /\ Last.op = "merge") =>
     Cardinality(DOMAIN disk) <= Cardinality(pre.files)

\* C13, amended: a merge() that resolves on a directory of at least two
\* segment files, when the live records together are no longer than
\* maxLogSize, leaves no more segment files than there were before it.
C13_MergeShrinksWhenLiveFits ==
  (/\ hist # <<>> /\ Last.op = "merge" /\ Last.ok
   /\ Cardinality(pre.files) >= 2
   /\ LiveBytes(keyDir) <= maxLogSize) =>
     Cardinality(DOMAIN disk) <= Cardinality(pre.files)

\* A merge of three segment files with live records left two files.
C13_Witness ==
  /\ hist # <<>> /\ Last.op = "merge" /\ Last.ok
  /\ Cardinality(pre.files) = 3
  /\ keyDir # <<>>
  /\ LiveBytes(keyDir) <= maxLogSize
  /\ Cardinality(DOMAIN disk) = 2

\* -------------------------------------------------------------------- fold

\* The read of fold for one entry: keyEntry.size bytes at keyEntry.position
\* of the file keyEntry.filename.
FoldRead(d, e) == ReadBuf(d[e.filename], e.position, e.size)

\* fold(callback), from entry i of _keyDir.entries(): the calls of the
\* callback so far, each with the key of the Map and the value sliced out of
\* the buffer by the lengths of its header.  fs.open rejects for a file that
\* does not exist and fold rejects with it.
RECURSIVE FoldFrom(_, _, _, _)
FoldFrom(d, kd, i, calls) ==
  IF i > Len(kd) THEN [calls |-> calls, ok |-> TRUE]
  ELSE IF kd[i].filename \notin DOMAIN d THEN [calls |-> calls, ok |-> FALSE]
  ELSE FoldFrom(d, kd, i + 1,
                Append(calls, [key |-> kd[i].key, value |-> FoldRead(d, kd[i]).value]))

Fold(d, kd) == FoldFrom(d, kd, 1, <<>>)

\* C19: fold calls the callback once for every key of the key directory and
\* for no other key, in the order of listKeys(), each time with the value
\* get(k) returns, wherever the records lie.
C19_FoldVisitsEveryKey ==
  LET ks == ListKeys(keyDir)
      r == Fold(disk, keyDir)
  IN  /\ r.ok
      /\ r.calls = [i \in 1..Len(ks) |-> [key |-> ks[i], value |-> GetNow(ks[i])]]

\* ---------------------------------------------------------------- listKeys

\* The keys whose last write that returned is a set.
LiveKeys == {k \in Keys : LastWriteIsSet(k)}

\* For a live key, the call with which it last entered the key directory:
\* the first of the sets that follow its last delete.
EnteredAt(k) ==
  CHOOSE i \in WritesOf(k) :
    /\ \A j \in WritesOf(k) : j >= i => hist[j].op = "set"
    /\ \A h \in WritesOf(k) :
         (\A j \in WritesOf(k) : j >= h => hist[j].op = "set") => i <= h

\* C20: listKeys() returns exactly the live keys, and keys that entered the
\* key directory in the current session stand in the order in which they
\* entered it (an overwrite keeps the position, a delete followed by a set
\* moves the key to the end, merge changes nothing).
C20_ListKeysLiveInEntryOrder ==
  LET ks == ListKeys(keyDir)
  IN  /\ {ks[i] : i \in 1..Len(ks)} = LiveKeys
      /\ \A i, j \in 1..Len(ks) :
           (i < j /\ EnteredAt(ks[i]) > SessionStart /\ EnteredAt(ks[j]) > SessionStart)
             => EnteredAt(ks[i]) < EnteredAt(ks[j])

\* ------------------------------------------------- calls after close (C15)

\* set, delete and merge called on the returned object after its close.
SetAfterClose == closed /\ \E k \in Keys, v \in Values : SetCall(k, v)

RemoveAfterClose == closed /\ \E k \in Keys : RemoveCall(k)

MergeAfterClose == closed /\ MergeCall

\* sync(): _handle.sync() rejects on a closed handle.
SyncOk == handleOpen

NextUse ==
  DoSet \/ DoRemove \/ Merge \/ Close \/ OpenCask
    \/ SetAfterClose \/ RemoveAfterClose \/ MergeAfterClose

\* The engine with callers that keep using it after close.
SpecUse == Init /\ [][NextUse]_vars

Stages == {"write", "sync"}

\* The number of rejected calls of set in one run.
MaxFailures == 1

FailedSets == {i \in 1..Len(hist) : hist[i].op = "set" /\ ~hist[i].ok}

\* set(key, value) when _handle.write or _handle.sync rejects with an I/O
\* error: the rollover before the write has happened, the rejection leaves
\* set before _keyDir.set and before the addition to _cursor.  A write that
\* rejects appends nothing; a sync rejects after the bytes were appended.
SetFails(key, value, stage) ==
  /\ ~closed
  /\ Len(hist) < MaxOps
  /\ Cardinality(FailedSets) < MaxFailures
  /\ LET timestamp == clock
         data == encodeKV(timestamp, key, value)
         roll == NeedsRollover(cursor, data.size)
         casks1 == IF roll THEN Append(casks, currentCask) ELSE casks
         cask1 == IF roll THEN NextCaskName(casks1) ELSE currentCask
         disk1 == IF roll THEN OpenAppend(disk, cask1) ELSE disk
         cursor1 == IF roll THEN 0 ELSE cursor
         open1 == roll \/ handleOpen
     IN  /\ stage = "sync" => open1
         /\ casks' = casks1
         /\ currentCask' = cask1
         /\ handleOpen' = open1
         /\ handleIsInitial' = (handleIsInitial /\ ~roll)
         /\ disk' = IF stage = "sync" THEN AppendChunks(disk1, cask1, <<data>>)
                                      ELSE disk1
         /\ keyDir' = keyDir
         /\ cursor' = cursor1
         /\ hist' = Append(hist, Op("set", key, value, FALSE, roll,
                                    IF roll THEN {cask1} \cap DOMAIN disk ELSE {}))
  /\ clock' = clock + 1
  /\ pre' = Observed
  /\ UNCHANGED closed
  /\ handle' = currentCask'
  /\ UNCHANGED getHandles

DoSetFails == \E k \in Keys, v \in Values, stage \in Stages : SetFails(k, v, stage)

NextIO == DoSet \/ DoRemove \/ Merge \/ DoSetFails

\* One session of the engine on a file system that can reject the write and
\* the sync of set.
SpecIO == Init /\ [][NextIO]_vars

\* C16: a set that fails leaves _cursor and _keyDir exactly as they were
\* before the call, also when it sealed the active segment and opened a new
\* one before the write.
C16_FailedSetLeavesCursorAndKeyDir ==
  (hist # <<>> /\ Last.op = "set" /\ ~Last.ok) =>
     (cursor = pre.cursor /\ keyDir = pre.keyDir)

\* ------------------------------------------------- torn records (C14)

\* The numbers of bytes of a record that reach the file when the process
\* dies inside _handle.write: less than a header, and a header with a part
\* of the key and the value.
TornSizes == {8, 20}

\* The first n bytes of the record data.
Torn(data, n) ==
  IF n < HEADER_SIZE
    THEN [key |-> Garbled, value |-> Garbled, timestamp |-> 0, size |-> n]
    ELSE [data EXCEPT !.size = n]

\* A chunk that is the beginning of a record only.
IsTorn(c) == (c.key = Garbled /\ c.size < HEADER_SIZE) \/ c.size < EntrySize(c)

\* The process dies while set(key, value) writes: the rollover of set has
\* happened, n bytes of the record are in the active segment, the engine is
\* gone.
CrashInSet(key, value, n) ==
  /\ ~closed
  /\ Len(hist) < MaxOps
  /\ LET data == encodeKV(clock, key, value)
         roll == NeedsRollover(cursor, data.size)
         casks1 == IF roll THEN Append(casks, currentCask) ELSE casks
         cask1 == IF roll THEN NextCaskName(casks1) ELSE currentCask
         disk1 == IF roll THEN OpenAppend(disk, cask1) ELSE disk
     IN  /\ roll \/ handleOpen
         /\ n < data.size
         /\ casks' = casks1
         /\ currentCask' = cask1
         /\ disk' = AppendChunks(disk1, cask1, <<Torn(data, n)>>)
         /\ hist' = Append(hist, Op("crash", key, value, FALSE, roll,
                                    IF roll THEN {cask1} \cap DOMAIN disk ELSE {}))
  /\ closed' = TRUE
  /\ handleOpen' = FALSE
  /\ clock' = clock + 1
  /\ pre' = Observed
  /\ UNCHANGED <<cursor, keyDir, handleIsInitial>>
  /\ handle' = currentCask'
  /\ UNCHANGED getHandles

\* The process dies while delete(key) writes the tombstone record.
CrashInRemove(key, n) ==
  /\ ~closed
  /\ Len(hist) < MaxOps
  /\ handleOpen
  /\ LET data == encodeKV(clock, key, Tombstone)
     IN  /\ n < data.size
         /\ disk' = AppendChunks(disk, currentCask, <<Torn(data, n)>>)
  /\ hist' = Append(hist, Op("crash", key, Tombstone, FALSE, FALSE, {}))
  /\ closed' = TRUE
  /\ handleOpen' = FALSE
  /\ clock' = clock + 1
  /\ pre' = Observed
  /\ UNCHANGED <<casks, currentCask, cursor, keyDir, handleIsInitial>>
  /\ handle' = currentCask'
  /\ UNCHANGED getHandles

DoCrashInSet == \E k \in Keys, v \in Values, n \in TornSizes : CrashInSet(k, v, n)

DoCrashInRemove == \E k \in Keys, n \in TornSizes : CrashInRemove(k, n)

NextCrash ==
  DoSet \/ DoRemove \/ Merge \/ Close \/ OpenCask \/ DoCrashInSet \/ DoCrashInRemove

\* The engine with processes that die in the middle of a write.
SpecCrash == Init /\ [][NextCrash]_vars

\* The file without the torn record at its end.
StripTail(f) ==
  IF f # <<>> /\ IsTorn(f[Len(f)]) THEN SubSeq(f, 1, Len(f) - 1) ELSE f

\* C14: openCask on a directory in which segments end with a torn record
\* succeeds, and the key directory it builds is the one it builds from the
\* same segments without their torn tails: the whole records before the torn
\* tail and the records of the other segments.
C14_TornTailIsDropped ==
  (hist # <<>> /\ Last.op = "open") =>
     /\ Last.ok
     /\ keyDir = LoadAll(<<>>, [id \in DOMAIN disk |-> StripTail(disk[id])], casks)

\* ------------------------------------------- foreign directory entries (C18)

\* What the entries that are not segments hold: README text, and backup.dat
\* a copy of a segment with one record.
ForeignContent(name) ==
  IF name = Backup THEN <<encodeKV(0, "a", "v1")>>
  ELSE <<[key |-> Garbled, value |-> Garbled, timestamp |-> 0, size |-> 40]>>

\* openCask on a directory that holds entries that are not segments.
InitForeign ==
  \E F \in SUBSET ForeignNames :
    /\ F # {}
    /\ LET st == OpenState([name \in F |-> ForeignContent(name)])
       IN  /\ disk = st.disk
           /\ casks = st.casks
           /\ currentCask = st.currentCask
           /\ keyDir = st.keyDir
    /\ cursor = 0
    /\ handleOpen = TRUE
    /\ handleIsInitial = TRUE
    /\ closed = FALSE
    /\ clock = 1
    /\ hist = <<>>
    /\ pre = [get |-> [k \in Keys |-> NotFound], keys |-> <<>>, files |-> F,
              cursor |-> 0, keyDir |-> <<>>, disk |-> NoFiles]
    /\ handle = currentCask
    /\ getHandles = <<>>

SpecForeign == InitForeign /\ [][Next]_vars

\* C18: right after openCask no entry of the key directory comes from a
\* directory entry that is not named NNNNN.dat, and the id of the active
\* segment is one more than the number of entries named NNNNN.dat that
\* openCask found.
C18_ForeignEntriesIgnored ==
  (hist = <<>> \/ Last.op = "open") =>
     /\ \A i \in 1..Len(keyDir) : keyDir[i].filename \notin ForeignNames
     /\ currentCask = Cardinality({i \in 1..Len(casks) : casks[i] \notin ForeignNames}) + 1

\* ------------------------------------------------ options of openCask (C17)

\* The largest maxLogSize passed to openCask.
MaxOption == 16500

\* The argument options of openCask: left out, or an object with an integer
\* maxLogSize.
Options ==
  {[given |-> FALSE, maxLogSize |-> 0]}
    \cup {[given |-> TRUE, maxLogSize |-> n] : n \in 0..MaxOption}

\* DefaultOptions
DefaultOptions == [given |-> TRUE, maxLogSize |-> 4 * 1024]

\* const { maxLogSize } = options ?? DefaultOptions
ChosenMaxLogSize(options) ==
  IF options.given THEN options.maxLogSize ELSE DefaultOptions.maxLogSize

\* A test of the options that rejects the upper limit itself.
OptionsAcceptedBelowLimit(size) == ~(size < 1024 \/ size >= 16384)

\* The test of openCask on maxLogSize; openCask throws when it fails.
OptionsAccepted(size) == ~(size < 1024 \/ size > 16384)

\* Before the first openCask: no engine, and a directory that does not exist.
InitOptions ==
  /\ disk = NoFiles
  /\ casks = <<>>
  /\ currentCask = 0
  /\ cursor = 0
  /\ keyDir = <<>>
  /\ handleOpen = FALSE
  /\ handleIsInitial = TRUE
  /\ closed = TRUE
  /\ clock = 1
  /\ hist = <<>>
  /\ pre = [get |-> [k \in Keys |-> NotFound], keys |-> <<>>, files |-> {},
            cursor |-> 0, keyDir |-> <<>>, disk |-> NoFiles]
  /\ handle = currentCask
  /\ getHandles = <<>>

\* openCask(name, options): the test of maxLogSize comes before readdir,
\* mkdir and the open of the active segment.  hist keeps the options passed
\* (key) and the maxLogSize chosen (value).
OpenCaskWith(options) ==
  /\ LET size == ChosenMaxLogSize(options)
     IN  IF OptionsAccepted(size)
           THEN LET st == OpenState(disk)
                IN  /\ disk' = st.disk
                    /\ casks' = st.casks
                    /\ currentCask' = st.currentCask
                    /\ keyDir' = st.keyDir
                    /\ handleOpen' = TRUE
                    /\ closed' = FALSE
                    /\ hist' = <<Op("open", options, size, TRUE, FALSE, {})>>
           ELSE /\ hist' = <<Op("open", options, size, FALSE, FALSE, {})>>
                /\ UNCHANGED <<disk, casks, currentCask, keyDir, handleOpen, closed>>
  /\ pre' = Observed
  /\ UNCHANGED <<cursor, handleIsInitial, clock>>
  /\ handle' = currentCask'
  /\ UNCHANGED getHandles

\* One call of openCask.
NextOptions == hist = <<>> /\ \E options \in Options : OpenCaskWith(options)

SpecOptions == InitOptions /\ [][NextOptions]_vars

C21_GetFailsPastEndOfFile ==
  \A k \in Keys :
    (Has(keyDir, k) /\ keyDir[IndexOf(keyDir, k)].filename \in DOMAIN disk) =>
      LET e == keyDir[IndexOf(keyDir, k)]
      IN  e.position + e.size > FileSize(disk[e.filename]) => GetNow(k) = Failed

\* C26: after close() the handle of the active segment is closed, also when
\* a rollover in set or a merge replaced the handle openCask opened.
C26_CloseClosesActiveHandle ==
  (hist # <<>> /\ Last.op = "close") => ~handleOpen

\* C28: between operations _cursor is the size of the active segment file.
C28_CursorIsActiveFileSize ==
  ~closed => cursor = FileSize(disk[currentCask])

\* ------------------------------------------- the marker as a value (C22)

\* set(key, value) with the tombstone marker as the value.
DoSetMarker == \E k \in Keys : Set(k, Tombstone)

NextMarker == DoSet \/ DoRemove \/ Merge \/ Close \/ OpenCask \/ DoSetMarker

\* The engine with callers that also set the tombstone marker as a value.
SpecMarker == Init /\ [][NextMarker]_vars

\* C22: a key whose last record carries the tombstone marker as its value is
\* absent, in the session of the set and after close and openCask.
C22_MarkerValueDeletes ==
  \A k \in Keys :
    (WritesOf(k) # {} /\ LastWriteOf(k).value = Tombstone) => GetNow(k) = NotFound

\* --------------------------------------------------------------------- C23

\* Every chunk of every segment file is one whole record.
WholeRecordsOnly ==
  \A id \in DOMAIN disk : \A i \in 1..Len(disk[id]) :
    disk[id][i].key # Garbled /\ disk[id][i].size = EntrySize(disk[id][i])

\* The size of the file id before the last operation; 0 for a file that did
\* not exist.
SizeBefore(id) == IF id \in DOMAIN pre.disk THEN FileSize(pre.disk[id]) ELSE 0

\* C23: a set that returned has appended 16 + Lk + Lv bytes to the active
\* segment and has left the bytes of every other file alone; the first set
\* on a fresh database is the record at offset 0 of 00001.dat; every segment
\* file is a concatenation of whole records.
C23_SetAppendsOneRecord ==
  /\ (hist # <<>> /\ Last.op = "set" /\ Last.ok) =>
       /\ FileSize(disk[currentCask])
            = SizeBefore(currentCask) + 16 + ByteLength(Last.key) + ByteLength(Last.value)
       /\ DOMAIN pre.disk \subseteq DOMAIN disk
       /\ \A id \in DOMAIN disk \ {currentCask} :
            id \in DOMAIN pre.disk /\ disk[id] = pre.disk[id]
       /\ Len(hist) = 1 =>
            /\ currentCask = 1
            /\ Len(disk[1]) = 1
            /\ disk[1][1].key = Last.key /\ disk[1][1].value = Last.value
            /\ keyDir = <<[key |-> Last.key, filename |-> 1, position |-> 0,
                           size |-> FileSize(disk[1]), timestamp |-> 1]>>
  /\ WholeRecordsOnly

\* -------------------------------------------------------------------- C27

\* The chunks of the files named lo..hi that exist, in the order of the names.
RECURSIVE ChunksOf(_, _, _)
ChunksOf(d, lo, hi) ==
  IF lo > hi THEN <<>>
  ELSE (IF lo \in DOMAIN d THEN d[lo] ELSE <<>>) \o ChunksOf(d, lo + 1, hi)

\* C27: after a merge() that returned, the files it produced (the names from
\* its first nextLogFileName up to the one before the new active segment)
\* hold one record per key of the key directory and nothing else: the record
\* of the last set of the key, with its timestamp and its length.
C27_MergeOutputIsLiveRecords ==
  (hist # <<>> /\ Last.op = "merge" /\ Last.ok) =>
     LET out == ChunksOf(disk, Len(casks) + 2, currentCask - 1)
     IN  /\ Len(out) = Len(keyDir)
         /\ \A i \in 1..Len(out) :
              /\ out[i].key = keyDir[i].key
              /\ LastWriteIsSet(out[i].key)
              /\ out[i].value = LastWriteOf(out[i].key).value
              /\ out[i].timestamp = keyDir[i].timestamp
              /\ out[i].size = EntrySize(out[i])
              /\ out[i].size = keyDir[i].size

\* -------------------------------------------------------------------- C29

\* Replay of the whole of a segment file, whatever its length.
loadWhole(kd, filename, f) == LoadFrom(kd, filename, f, 1, 0, FileSize(f))

RECURSIVE LoadAllWhole(_, _, _)
LoadAllWhole(kd, d, cs) ==
  IF cs = <<>> THEN kd
  ELSE IF IsCaskName(Head(cs))
    THEN LoadAllWhole(loadWhole(kd, Head(cs), d[Head(cs)]), d, Tail(cs))
    ELSE LoadAllWhole(kd, d, Tail(cs))

\* C29: every record lies within the first maxLogSize bytes of its segment,
\* so that openCask applies every record: the key directory it builds is the
\* one a replay of the whole of every segment builds.
C29_ReplaySkipsNoRecord ==
  /\ \A id \in DOMAIN disk : \A i \in 1..Len(disk[id]) :
       OffsetOf(disk[id], i) + disk[id][i].size <= maxLogSize
  /\ (hist # <<>> /\ Last.op = "open") => keyDir = LoadAllWhole(<<>>, disk, casks)

\* ------------------------------------------------ the codec in bytes (C24, C25)

\* The length of the keys and values given to the codec.
MaxLen == 2

\* The characters of the strings given to the codec: "a" (one byte in UTF-8),
\* "e'" for U+00E9 (two bytes) and "poo" for U+1F4A9 (four bytes); "fffd" is
\* U+FFFD, what toString puts for bytes that are no UTF-8.
Chars == {"a", "e'", "poo"}

Replacement == "fffd"

\* The strings of at most n characters.
RECURSIVE StringsUpTo(_)
StringsUpTo(n) ==
  IF n = 0 THEN {<<>>}
  ELSE StringsUpTo(n - 1)
         \cup {Append(s, c) : s \in {t \in StringsUpTo(n - 1) : Len(t) = n - 1}, c \in Chars}

Strings == StringsUpTo(MaxLen)

\* The timestamps and the sizes given to encodeHeader.
Timestamps == {0, 1, 1000, 1048581}

Sizes == {0, 1, 11, 12, 255, 256, 65537, 16777216}

\* The UTF-8 bytes of a character.
Utf8(c) ==
  IF c = "a" THEN <<97>>
  ELSE IF c = "e'" THEN <<195, 169>>
  ELSE IF c = "poo" THEN <<240, 159, 146, 169>>
  ELSE <<239, 191, 189>>

RECURSIVE Utf8Encode(_)
Utf8Encode(s) == IF s = <<>> THEN <<>> ELSE Utf8(Head(s)) \o Utf8Encode(Tail(s))

\* Buffer.byteLength taken as the number of characters.
byteLengthInChars(s) == Len(s)

\* Buffer.byteLength(s)
byteLength(s) == Len(Utf8Encode(s))

\* buff.toString("utf8") of a sequence of bytes: the characters of the byte
\* sequences that are UTF-8, U+FFFD for a byte that begins none.
RECURSIVE Utf8Decode(_)
Utf8Decode(b) ==
  IF b = <<>> THEN <<>>
  ELSE LET hit == {c \in Chars \cup {Replacement} :
                     /\ Len(Utf8(c)) <= Len(b)
                     /\ SubSeq(b, 1, Len(Utf8(c))) = Utf8(c)}
       IN  IF hit = {} THEN <<Replacement>> \o Utf8Decode(Tail(b))
           ELSE LET c == CHOOSE x \in hit : TRUE
                IN  <<c>> \o Utf8Decode(SubSeq(b, Len(Utf8(c)) + 1, Len(b)))

\* The exponent of the natural number n > 0: the place of its leading one.
Exponent(n) == CHOOSE x \in 0..30 : n \div 2^x = 1

\* Bit k of the IEEE 754 double of the natural number n < 2^31 with exponent
\* e: sign 0, e + 1023 in bits 52..62, the digits of n below its leading one
\* at the top of the 52 bits of the fraction.
DoubleBit(n, e, k) ==
  IF n = 0 \/ k = 63 THEN 0
  ELSE IF k >= 52 THEN ((e + 1023) \div 2^(k - 52)) % 2
  ELSE IF k >= 52 - e THEN ((n - 2^e) \div 2^(k - (52 - e))) % 2
  ELSE 0

\* The byte made of the bits lo .. lo + 7 of the double of n.
DoubleByte(n, e, lo) ==
  DoubleBit(n, e, lo) + 2 * DoubleBit(n, e, lo + 1) + 4 * DoubleBit(n, e, lo + 2)
    + 8 * DoubleBit(n, e, lo + 3) + 16 * DoubleBit(n, e, lo + 4)
    + 32 * DoubleBit(n, e, lo + 5) + 64 * DoubleBit(n, e, lo + 6)
    + 128 * DoubleBit(n, e, lo + 7)

\* buff.writeDoubleLE(n): the eight bytes, lowest first.
DoubleLE(n) ==
  LET e == IF n = 0 THEN 0 ELSE Exponent(n)
  IN  <<DoubleByte(n, e, 0), DoubleByte(n, e, 8), DoubleByte(n, e, 16),
        DoubleByte(n, e, 24), DoubleByte(n, e, 32), DoubleByte(n, e, 40),
        DoubleByte(n, e, 48), DoubleByte(n, e, 56)>>

\* buff.writeUInt32LE(n): the four bytes, lowest first.
UInt32LE(n) ==
  <<n % 256, (n \div 256) % 256, (n \div 65536) % 256, (n \div 16777216) % 256>>

\* The sum of bit(k) * 2^(k - lo) over the bits lo..hi of eight bytes.
RECURSIVE BitsValue(_, _, _)
BitsValue(b, lo, hi) ==
  IF lo > hi THEN 0
  ELSE ((b[(lo \div 8) + 1] \div 2^(lo % 8)) % 2) + 2 * BitsValue(b, lo + 1, hi)

\* A double that is no natural number below 2^31.
OtherDouble == 2^(30) + (2^(30) - 1)

\* buffer.readDoubleLE(offset) of the eight bytes b.
ReadDouble(b) ==
  LET exp == BitsValue(b, 52, 62)
  IN  IF \A j \in 1..8 : b[j] = 0 THEN 0
      ELSE IF exp < 1023 \/ exp > 1023 + 30 \/ b[8] >= 128 THEN OtherDouble
      ELSE LET e == exp - 1023
           IN  IF e < 30 /\ BitsValue(b, 22, 51 - e) # 0 THEN OtherDouble
               ELSE IF BitsValue(b, 0, 21) # 0 THEN OtherDouble
               ELSE 2^(e) + BitsValue(b, 52 - e, 51)

\* buffer.readUInt32LE(offset) of the four bytes b.
ReadUInt32(b) == b[1] + 256 * b[2] + 65536 * b[3] + 16777216 * b[4]

\* Buffer.alloc(n)
RECURSIVE Alloc(_)
Alloc(n) == IF n = 0 THEN <<>> ELSE <<0>> \o Alloc(n - 1)

\* The buffer buff with the bytes b written at offset, as far as they fit.
WriteAt(buff, b, offset) ==
  LET fit == Min(Len(b), Len(buff) - offset)
  IN  SubSeq(buff, 1, offset) \o SubSeq(b, 1, fit)
        \o SubSeq(buff, offset + fit + 1, Len(buff))

\* encodeHeader(buff, timestamp, kSize, vSize): the buffer afterwards.
encodeHeader(buff, timestamp, kSize, vSize) ==
  WriteAt(WriteAt(WriteAt(buff, DoubleLE(timestamp), 0), UInt32LE(kSize), 8),
          UInt32LE(vSize), 12)

\* decodeHeader(buffer, offset)
decodeHeader(buffer, offset) ==
  <<ReadDouble(SubSeq(buffer, offset + 1, offset + 8)),
    ReadUInt32(SubSeq(buffer, offset + 9, offset + 12)),
    ReadUInt32(SubSeq(buffer, offset + 13, offset + 16))>>

\* encodeKV(timestamp, key, value) as bytes.
encodeKVBytes(timestamp, key, value) ==
  LET kSize == byteLength(key)
      vSize == byteLength(value)
      buff == encodeHeader(Alloc(HEADER_SIZE + kSize + vSize), timestamp, kSize, vSize)
  IN  WriteAt(buff, Utf8Encode(key \o value), HEADER_SIZE)

\* buff.toString("utf8", start, end)
ToString(buff, start, end) == Utf8Decode(SubSeq(buff, start + 1, Min(end, Len(buff))))

\* decodeKV(buff, offset): the header is read at offset, the key and the
\* value are sliced from HEADER_SIZE.
decodeKV(buff, offset) ==
  LET header == decodeHeader(buff, offset)
      kSize == header[2]
      vSize == header[3]
  IN  [key |-> ToString(buff, HEADER_SIZE, HEADER_SIZE + kSize),
       value |-> ToString(buff, HEADER_SIZE + kSize, HEADER_SIZE + kSize + vSize),
       timestamp |-> header[1]]

\* Before any call of the codec; the engine plays no part.
InitCodec ==
  /\ disk = NoFiles
  /\ casks = <<>>
  /\ currentCask = 0
  /\ cursor = 0
  /\ keyDir = <<>>
  /\ handleOpen = FALSE
  /\ handleIsInitial = TRUE
  /\ closed = TRUE
  /\ clock = 1
  /\ hist = <<>>
  /\ pre = [get |-> [k \in Keys |-> NotFound], keys |-> <<>>, files |-> {},
            cursor |-> 0, keyDir |-> <<>>, disk |-> NoFiles]
  /\ handle = currentCask
  /\ getHandles = <<>>

\* decodeKV(encodeKV(timestamp, key, value), 0); hist keeps the arguments,
\* the buffer and the result.
EncodeThenDecode(timestamp, key, value) ==
  /\ LET buff == encodeKVBytes(timestamp, key, value)
     IN  hist' = <<[op |-> "encodeKV", timestamp |-> timestamp, key |-> key,
                    value |-> value, buff |-> buff, decoded |-> decodeKV(buff, 0)]>>
  /\ UNCHANGED <<disk, casks, currentCask, cursor, keyDir, handleOpen,
                 handleIsInitial, closed, clock, pre, handle, getHandles>>

\* decodeHeader(buff, 0) after encodeHeader(buff, timestamp, kSize, vSize) on
\* a buffer of 16 bytes.
HeaderThenDecode(timestamp, kSize, vSize) ==
  /\ LET buff == encodeHeader(Alloc(HEADER_SIZE), timestamp, kSize, vSize)
     IN  hist' = <<[op |-> "encodeHeader", timestamp |-> timestamp, kSize |-> kSize,
                    vSize |-> vSize, buff |-> buff, decoded |-> decodeHeader(buff, 0)]>>
  /\ UNCHANGED <<disk, casks, currentCask, cursor, keyDir, handleOpen,
                 handleIsInitial, closed, clock, pre, handle, getHandles>>

\* decodeKV(buff, offset) on a buffer of two records, at the offset of the
\* second.
DecodeSecond(first, second) ==
  /\ LET one == encodeKVBytes(first.timestamp, first.key, first.value)
         buff == one \o encodeKVBytes(second.timestamp, second.key, second.value)
     IN  hist' = <<[op |-> "decodeKV", first |-> first, second |-> second,
                    buff |-> buff, offset |-> Len(one),
                    decoded |-> decodeKV(buff, Len(one))]>>
  /\ UNCHANGED <<disk, casks, currentCask, cursor, keyDir, handleOpen,
                 handleIsInitial, closed, clock, pre, handle, getHandles>>

DoEncodeThenDecode ==
  \E t \in Timestamps, k \in Strings, v \in Strings : EncodeThenDecode(t, k, v)

DoHeaderThenDecode ==
  \E t \in Timestamps, ks \in Sizes, vs \in Sizes : HeaderThenDecode(t, ks, vs)

DoDecodeSecond ==
  \E k1 \in StringsUpTo(1), v1 \in StringsUpTo(1), k2 \in Strings, v2 \in Strings :
    DecodeSecond([timestamp |-> 1, key |-> k1, value |-> v1],
                 [timestamp |-> 1000, key |-> k2, value |-> v2])

\* One call of the codec.
NextCodec ==
  hist = <<>> /\ (DoEncodeThenDecode \/ DoHeaderThenDecode \/ DoDecodeSecond)

SpecCodec == InitCodec /\ [][NextCodec]_vars

\* C24: decodeKV(encodeKV(ts, k, v), 0) is (ts, k, v) for every timestamp,
\* key and value, the empty ones included, and decodeHeader after
\* encodeHeader(buf, ts, ks, vs) is (ts, ks, vs).
C24_CodecRoundTrip ==
  hist # <<>> =>
    /\ Last.op = "encodeKV" =>
         /\ Last.decoded = [key |-> Last.key, value |-> Last.value,
                            timestamp |-> Last.timestamp]
         /\ Len(Last.buff) = HEADER_SIZE + byteLength(Last.key) + byteLength(Last.value)
    /\ Last.op = "encodeHeader" =>
         Last.decoded = <<Last.timestamp, Last.kSize, Last.vSize>>

\* A record with an empty key and a value of two characters of four and two
\* bytes went through the codec.
C24_Witness ==
  /\ hist # <<>> /\ Last.op = "encodeKV"
  /\ Last.key = <<>> /\ Last.value = <<"poo", "e'">>
  /\ Last.timestamp = 1048581
  /\ Len(Last.buff) = 22
  /\ Last.decoded.value = <<"poo", "e'">>

\* C25: on a buffer of two records decodeKV(buf, off), off the offset of
\* the second record, returns the timestamp, the key and the value of the
\* second record.
C25_DecodeAtOffset ==
  (hist # <<>> /\ Last.op = "decodeKV") => Last.decoded = Last.second


\* ------------------------------------------------- sets that interleave
\* set is an async function: it runs up to an await, and at the await other
\* calls of set start or go on.  Under SpecRace hist holds the calls of set
\* in the order they were invoked, each with the await it is suspended at
\* (pc): "close" (_handle.close of the rollover), "open" (fs.open of the
\* rollover), "write" (_handle.write), "sync" (_handle.sync), and "done" when
\* it returned or "failed" when it rejected.

\* The number of calls of set.
MaxCalls == 3

Suspended == {"close", "open", "write", "sync"}

\* An operation of a call other than i is pending on the handle of file h.
Pending(h, i) ==
  \E j \in 1..Len(hist) :
    j # i /\ hist[j].pc \in {"write", "sync"} /\ hist[j].target = h

\* close() was called on the handle of file h and waits for the operations
\* pending on it.
CloseAsked(h) ==
  \E j \in 1..Len(hist) : hist[j].pc = "close" /\ hist[j].target = h

\* Whether _handle is open after the operation of call i on the handle of
\* file h has finished: a handle whose close was asked is closed as soon as
\* no operation is pending on it.
OpenAfter(h, i) ==
  IF handle = h /\ CloseAsked(h) /\ ~Pending(h, i) THEN FALSE ELSE handleOpen

\* set(key, value) is called and runs to its first await: the close of the
\* rollover, or the write.
InvokeSet(key, value) ==
  /\ ~closed
  /\ Len(hist) < MaxCalls
  /\ LET data == encodeKV(clock, key, value)
         roll == NeedsRollover(cursor, data.size)
         call == [op |-> "set", key |-> key, value |-> value, data |-> data,
                  overlaps |-> \E j \in 1..Len(hist) : hist[j].pc \in Suspended,
                  rolled |-> roll, target |-> handle, name |-> currentCask,
                  pc |-> IF roll THEN "close"
                         ELSE IF handleOpen THEN "write" ELSE "failed"]
     IN  /\ hist' = Append(hist, call)
         /\ handleOpen' = IF roll THEN handleOpen /\ Pending(handle, 0)
                          ELSE handleOpen
  /\ clock' = clock + 1
  /\ UNCHANGED <<disk, casks, currentCask, cursor, keyDir, handleIsInitial,
                 closed, pre, handle, getHandles>>

\* The close of call i has resolved: the call names the next segment and
\* asks for it to be opened.
CloseResolves(i) ==
  /\ hist[i].pc = "close"
  /\ ~Pending(hist[i].target, i)
  /\ casks' = Append(casks, currentCask)
  /\ currentCask' = NextCaskName(casks')
  /\ hist' = [hist EXCEPT ![i].pc = "open", ![i].name = currentCask']
  /\ UNCHANGED <<disk, cursor, keyDir, handleOpen, handleIsInitial, closed,
                 clock, pre, handle, getHandles>>

\* The open of call i has resolved: _handle and _cursor are assigned and the
\* write is asked of the new handle.
OpenResolves(i) ==
  /\ hist[i].pc = "open"
  /\ disk' = OpenAppend(disk, hist[i].name)
  /\ handle' = hist[i].name
  /\ handleOpen' = TRUE
  /\ handleIsInitial' = FALSE
  /\ cursor' = 0
  /\ hist' = [hist EXCEPT ![i].pc = "write", ![i].target = hist[i].name]
  /\ UNCHANGED <<casks, currentCask, keyDir, closed, clock, pre, getHandles>>

\* The write of call i has resolved: the record is at the end of the file of
\* the handle it was asked of, and the sync is asked of _handle.
WriteResolves(i) ==
  /\ hist[i].pc = "write"
  /\ disk' = AppendChunks(disk, hist[i].target, <<hist[i].data>>)
  /\ LET open1 == OpenAfter(hist[i].target, i)
     IN  /\ handleOpen' = open1
         /\ hist' = IF open1
                      THEN [hist EXCEPT ![i].pc = "sync", ![i].target = handle]
                      ELSE [hist EXCEPT ![i].pc = "failed"]
  /\ UNCHANGED <<casks, currentCask, cursor, keyDir, handleIsInitial, closed,
                 clock, pre, handle, getHandles>>

\* The sync of call i has resolved: the call stores the entry of the key,
\* advances _cursor and returns.
SyncResolves(i) ==
  /\ hist[i].pc = "sync"
  /\ keyDir' = Put(keyDir, hist[i].key,
                   SetLocator(currentCask, hist[i].data.timestamp,
                              hist[i].data.size, cursor))
  /\ cursor' = cursor + hist[i].data.size
  /\ handleOpen' = OpenAfter(hist[i].target, i)
  /\ hist' = [hist EXCEPT ![i].pc = "done"]
  /\ UNCHANGED <<disk, casks, currentCask, handleIsInitial, closed, clock, pre,
                 handle, getHandles>>

DoInvokeSet == \E k \in Keys, v \in Values : InvokeSet(k, v)

DoCloseResolves == \E i \in 1..Len(hist) : CloseResolves(i)

DoOpenResolves == \E i \in 1..Len(hist) : OpenResolves(i)

DoWriteResolves == \E i \in 1..Len(hist) : WriteResolves(i)

DoSyncResolves == \E i \in 1..Len(hist) : SyncResolves(i)

NextRace ==
  DoInvokeSet \/ DoCloseResolves \/ DoOpenResolves \/ DoWriteResolves
    \/ DoSyncResolves

SpecRace == Init /\ [][NextRace]_vars

\* Every call of set has returned.
AllReturned == hist # <<>> /\ \A i \in 1..Len(hist) : hist[i].pc = "done"

\* Some call of set was invoked while an earlier one was suspended.
SomeOverlap == \E i \in 1..Len(hist) : hist[i].overlaps

\* The entry of every key of the key directory locates a record of that key.
EntriesLocateOwnRecords ==
  \A i \in 1..Len(keyDir) :
    /\ keyDir[i].filename \in DOMAIN disk
    /\ ReadBuf(disk[keyDir[i].filename], keyDir[i].position,
               keyDir[i].size).key = keyDir[i].key

\* C30: when calls of set that interleaved at their awaits have all returned,
\* the entry of each key locates a record of that key and _cursor is the size
\* of the active file.
C30_InterleavedSetsStayConsistent ==
  (AllReturned /\ SomeOverlap) =>
    (EntriesLocateOwnRecords /\ cursor = FileSize(disk[currentCask]))


\* ------------------------------------------------- the handles of the reads
\* get opens the file of the entry for reading and returns without closing
\* the handle; fold closes the handle of each entry after the read.

\* The body of get(key): null for a key that has no entry, a rejection when
\* the file of the entry cannot be opened, else the value decoded from the
\* bytes read, with the handle left open.
GetCall(key) ==
  /\ Len(hist) < MaxOps
  /\ LET opened == Has(keyDir, key)
                     /\ keyDir[IndexOf(keyDir, key)].filename \in DOMAIN disk
         result == Get(disk, keyDir, key)
     IN  /\ getHandles' = IF opened
                            THEN Append(getHandles,
                                        keyDir[IndexOf(keyDir, key)].filename)
                            ELSE getHandles
         /\ hist' = Append(hist, Op("get", key, result, result # Failed, FALSE, {}))
  /\ pre' = Observed
  /\ UNCHANGED <<disk, casks, currentCask, cursor, keyDir, handleOpen,
                 handleIsInitial, closed, clock, handle>>

\* The body of fold(callback): every handle it opens is closed before the
\* next entry is read.
FoldCall ==
  /\ Len(hist) < MaxOps
  /\ LET result == Fold(disk, keyDir)
     IN  hist' = Append(hist, Op("fold", "", result.calls, result.ok, FALSE, {}))
  /\ pre' = Observed
  /\ UNCHANGED <<disk, casks, currentCask, cursor, keyDir, handleOpen,
                 handleIsInitial, closed, clock, handle, getHandles>>

\* get(key) and fold(callback) on an engine that was not closed
GetKey(key) == ~closed /\ GetCall(key)

DoGet == \E k \in Keys : GetKey(k)

DoFold == ~closed /\ FoldCall

NextReads == DoSet \/ DoRemove \/ Merge \/ DoGet \/ DoFold

SpecReads == Init /\ [][NextReads]_vars

\* The number of open handles the engine holds.
OpenHandles == (IF handleOpen THEN 1 ELSE 0) + Len(getHandles)

\* C31: between operations the engine holds exactly one open handle, that of
\* the active segment, and no open handle on a file merge has unlinked.
C31_OneOpenHandle ==
  ~closed =>
    /\ OpenHandles = 1
    /\ handleOpen /\ handle = currentCask
    /\ \A i \in 1..Len(getHandles) : getHandles[i] \in DOMAIN disk

====
